---- MODULE Spec2Model ----
(***************************************************************************)
(* Model of the dynamic quote generator, src/dom-manipulation/script.js.   *)
(* The file holds two successive versions of the script; the operations    *)
(* modelled here are those of the later one (lines 316-627) together with  *)
(* populateCategoryFilter (lines 291-314), which the import handler calls. *)
(*                                                                         *)
(* Strings are sequences of chunks: the chunk " " is one whitespace        *)
(* character, any other chunk is a non-empty piece of text that neither    *)
(* starts nor ends with whitespace.  JavaScript values are tagged records; *)
(* an object is an ordered list of members, as property order is           *)
(* observable through JSON.stringify.  A storage value or a file is a      *)
(* text: null (no value), the empty string, text that JSON.parse rejects,  *)
(* a JSON text (a tree of syntax nodes) or a plain string.                 *)
(***************************************************************************)
EXTENDS Integers, Sequences, FiniteSets, Bags, TLC

VARIABLES quotes, localStorage, sessionStorage, categoryFilter, download,
          alertMsg, lastCall, staleWrites

vars == <<quotes, localStorage, sessionStorage, categoryFilter, download,
          alertMsg, lastCall, staleWrites>>

(* ---------------- bounds ---------------- *)
\* the longest collection an add or an import may build
MaxQuotes == 3
\* the most writes of dq_quotes_v1 that may fail in a row
MaxStaleWrites == 1

(* ---------------- storage keys ---------------- *)
LOCAL_KEY == "dq_quotes_v1"
SESSION_KEY == "dq_last_quote"
SELECTED_KEY == "dq_selectedCategory"

(* ---------------- strings ---------------- *)
WS == " "

RECURSIVE trimStart(_)
trimStart(s) ==
  IF s # <<>> /\ Head(s) = WS THEN trimStart(Tail(s)) ELSE s

RECURSIVE trimEnd(_)
trimEnd(s) ==
  IF s # <<>> /\ s[Len(s)] = WS THEN trimEnd(SubSeq(s, 1, Len(s) - 1)) ELSE s

trim(s) == trimEnd(trimStart(s))

(* ---------------- JavaScript values ---------------- *)
Undefined == [t |-> "undefined"]
Null == [t |-> "null"]
Str(s) == [t |-> "string", s |-> s]
Num(n) == [t |-> "number", n |-> n]
Obj(m) == [t |-> "object", m |-> m]
Arr(a) == [t |-> "array", a |-> a]
Member(k, v) == [key |-> k, val |-> v]

\* typeof v
TypeOf(v) ==
  CASE v.t = "undefined" -> "undefined"
    [] v.t = "string" -> "string"
    [] v.t = "number" -> "number"
    [] OTHER -> "object"

\* ToBoolean(v), as used by !v, v && ..., v ? a : b and filter(c => c)
Truthy(v) ==
  CASE v.t = "undefined" -> FALSE
    [] v.t = "null" -> FALSE
    [] v.t = "string" -> v.s # <<>>
    [] v.t = "number" -> v.n # 0
    [] OTHER -> TRUE

\* v.k for a property name k that no prototype defines
GetProp(v, k) ==
  IF v.t = "object" /\ \E i \in 1..Len(v.m) : v.m[i].key = k
  THEN v.m[CHOOSE i \in 1..Len(v.m) : v.m[i].key = k].val
  ELSE Undefined

\* String(v) for the primitives an option value can be set from
ToStr(v) ==
  CASE v.t = "string" -> v.s
    [] v.t = "number" -> <<ToString(v.n)>>
    [] OTHER -> <<"[object Object]">>

(* ---------------- texts: storage values and files ---------------- *)
NoText == [kind |-> "null"]
EmptyText == [kind |-> "empty"]
Malformed == [kind |-> "malformed"]
Plain(s) == [kind |-> "plain", s |-> s]
JsonText(indent, doc) == [kind |-> "json", indent |-> indent, doc |-> doc]

JString(s) == [j |-> "string", s |-> s]
JNumber(n) == [j |-> "number", n |-> n]
JNull == [j |-> "null"]
JObject(ms) == [j |-> "object", members |-> ms]
JArray(es) == [j |-> "array", elements |-> es]
JMember(k, d) == [name |-> k, value |-> d]

\* the indices 1..n, in order
Indices(n) == [i \in 1..n |-> i]

\* JSON.stringify: the syntax tree of a value. Members whose value is
\* undefined are left out, an undefined array element is written as null.
RECURSIVE Encode(_)
Encode(v) ==
  CASE v.t = "string" -> JString(v.s)
    [] v.t = "number" -> JNumber(v.n)
    [] v.t = "array" ->
         JArray([i \in 1..Len(v.a) |->
                   IF v.a[i].t = "undefined" THEN JNull ELSE Encode(v.a[i])])
    [] v.t = "object" ->
         LET keep == SelectSeq(Indices(Len(v.m)), LAMBDA i : v.m[i].val.t # "undefined")
         IN  JObject([k \in 1..Len(keep) |->
                        JMember(v.m[keep[k]].key, Encode(v.m[keep[k]].val))])
    [] OTHER -> JNull

JSONstringify(v, indent) == JsonText(indent, Encode(v))

\* JSON.parse of a syntax tree. A repeated member name keeps the position of
\* its first occurrence and the value of its last one.
RECURSIVE Decode(_)
Decode(d) ==
  CASE d.j = "string" -> Str(d.s)
    [] d.j = "number" -> Num(d.n)
    [] d.j = "array" -> Arr([i \in 1..Len(d.elements) |-> Decode(d.elements[i])])
    [] d.j = "object" ->
         LET ms == d.members
             first == SelectSeq(Indices(Len(ms)),
                        LAMBDA i : \A h \in 1..(i - 1) : ms[h].name # ms[i].name)
             last(n) == CHOOSE i \in 1..Len(ms) :
                          /\ ms[i].name = n
                          /\ \A h \in (i + 1)..Len(ms) : ms[h].name # n
         IN  Obj([k \in 1..Len(first) |->
                    Member(ms[first[k]].name,
                           Decode(ms[last(ms[first[k]].name)].value))])
    [] OTHER -> Null

\* JSON.parse(text): ok is FALSE where it throws a SyntaxError
JSONparse(text) ==
  IF text.kind = "json"
  THEN [ok |-> TRUE, value |-> Decode(text.doc)]
  ELSE [ok |-> FALSE, value |-> Undefined]

\* !raw for a value read from storage: null or the empty string
Falsy(text) ==
  \/ text.kind \in {"null", "empty"}
  \/ text.kind = "plain" /\ text.s = <<>>

(* ---------------- default quotes ---------------- *)
QuoteTCA(text, category, author) ==
  Obj(<<Member("text", Str(text)), Member("category", Str(category)),
        Member("author", Str(author))>>)

DEFAULT_QUOTES ==
  << QuoteTCA(<<"The best way to predict the future is to invent it.">>,
              <<"Inspiration">>, <<"Alan", " ", "Kay">>),
     QuoteTCA(<<"Simplicity is the soul of efficiency.">>,
              <<"Wisdom">>, <<"Austin", " ", "Freeman">>),
     QuoteTCA(<<"If you want to go fast, go alone. If you want to go far, go together.">>,
              <<"Teamwork">>, <<"African", " ", "Proverb">>) >>

(* ---------------- load / save helpers ---------------- *)
\* ValidStored, had it asked, as the import does, for a text that is not
\* empty once trimmed
ValidStoredNonEmpty(q) ==
  /\ Truthy(q)
  /\ TypeOf(GetProp(q, "text")) = "string"
  /\ trim(GetProp(q, "text").s) # <<>>

\* parsed.filter(q => q && typeof q.text === 'string')
ValidStored(q) == Truthy(q) /\ TypeOf(GetProp(q, "text")) = "string"

loadQuotes(ls) ==
  LET raw == ls[LOCAL_KEY]
      parsed == JSONparse(raw)
  IN  IF Falsy(raw) THEN DEFAULT_QUOTES
      ELSE IF ~parsed.ok THEN DEFAULT_QUOTES
      ELSE IF parsed.value.t # "array" THEN DEFAULT_QUOTES
      ELSE SelectSeq(parsed.value.a, ValidStored)

\* saveQuotes, had it been called before the push: the last quote is missing
saveQuotesBeforePush(ls, qs, ok) ==
  IF ok
  THEN [ls EXCEPT ![LOCAL_KEY] =
          JSONstringify(Arr(SubSeq(qs, 1, Len(qs) - 1)), 0)]
  ELSE ls

\* saveQuotes, had it given the storage up after a write that failed
saveQuotesGivesUp(ls, qs, ok) ==
  IF ok /\ staleWrites = 0
  THEN [ls EXCEPT ![LOCAL_KEY] = JSONstringify(Arr(qs), 0)]
  ELSE ls

\* localStorage.setItem(LOCAL_KEY, JSON.stringify(quotes)); a write that
\* throws (ok = FALSE) is caught and leaves the storage as it was.
saveQuotes(ls, qs, ok) ==
  IF ok THEN [ls EXCEPT ![LOCAL_KEY] = JSONstringify(Arr(qs), 0)] ELSE ls

(* ---------------- categories and filtering ---------------- *)
ALL == <<"all">>

\* [...new Set(s)]: the first occurrence of each value, in order
Distinct(s) ==
  LET keep == SelectSeq(Indices(Len(s)), LAMBDA i : \A h \in 1..(i - 1) : s[h] # s[i])
  IN  [k \in 1..Len(keep) |-> s[keep[k]]]

\* [...new Set(quotes.map(q => q.category).filter(c => c))]
listCategories(qs) ==
  Distinct(SelectSeq([i \in 1..Len(qs) |-> GetProp(qs[i], "category")], Truthy))

\* what a handler leaves behind: both storages, the select element and
\* whether it threw to its caller
Outcome(ls, ss, cf, threw) == [ls |-> ls, ss |-> ss, cf |-> cf, threw |-> threw]

\* selectedCategory === 'all' ? quotes : quotes.filter(q => q.category === selectedCategory)
filtered(qs, selectedCategory) ==
  IF selectedCategory = ALL THEN qs
  ELSE SelectSeq(qs, LAMBDA q : GetProp(q, "category") = Str(selectedCategory))

\* filterQuotes(). The write of dq_selectedCategory is not guarded: when it
\* throws (ok = FALSE) the handler stops there. The quote shown is picked by
\* Math.random, so every element of the filtered list is a possible outcome.
filterQuotes(qs, ls, ss, cf, ok) ==
  LET selectedCategory == cf.value
      ls1 == [ls EXCEPT ![SELECTED_KEY] = Plain(selectedCategory)]
      pool == filtered(qs, selectedCategory)
  IN  IF ~ok THEN {Outcome(ls, ss, cf, TRUE)}
      ELSE IF pool = <<>> THEN {Outcome(ls1, ss, cf, FALSE)}
      ELSE {Outcome(ls1, [ss EXCEPT ![SESSION_KEY] = JSONstringify(pool[i], 0)],
                    cf, FALSE) : i \in 1..Len(pool)}

\* populateCategories() and populateCategoryFilter(), which have the same
\* body. Rebuilding the options puts the select back on its first option,
\* "all". The saved category is written back unchanged by filterQuotes, a
\* write that does not grow the storage and so succeeds.
populateCategories(qs, ls, ss, cf) ==
  LET categories == listCategories(qs)
      cf1 == [present |-> TRUE,
              options |-> <<ALL>> \o [i \in 1..Len(categories) |-> ToStr(categories[i])],
              value |-> ALL]
      savedCategory == ls[SELECTED_KEY]
  IN  IF ~cf.present THEN {Outcome(ls, ss, cf, FALSE)}
      ELSE IF /\ ~Falsy(savedCategory)
              /\ \E i \in 1..Len(categories) : categories[i] = Str(savedCategory.s)
      THEN filterQuotes(qs, ls, ss, [cf1 EXCEPT !.value = savedCategory.s], TRUE)
      ELSE {Outcome(ls, ss, cf1, FALSE)}

\* showRandomQuote(): the session storage it leaves
showRandomQuote(qs, ss) ==
  IF qs = <<>> THEN {ss}
  ELSE {[ss EXCEPT ![SESSION_KEY] = JSONstringify(qs[i], 0)] : i \in 1..Len(qs)}

\* init(), after the listeners are attached: the categories are populated,
\* then a readable last quote of the session is shown, else a random one.
init(qs, ls, ss, cf) ==
  UNION { LET lastRaw == o.ss[SESSION_KEY]
              last == JSONparse(lastRaw)
          IN  IF ~Falsy(lastRaw) /\ last.ok /\ last.value.t \notin {"null", "undefined"}
              THEN {o}
              ELSE {Outcome(o.ls, ss2, o.cf, FALSE) : ss2 \in showRandomQuote(qs, o.ss)}
          : o \in populateCategories(qs, ls, ss, cf) }

(* ---------------- quotes built by add and import ---------------- *)
Quote(text, author, category) ==
  Obj(<<Member("text", Str(text)), Member("author", Str(author)),
        Member("category", Str(category))>>)

\* field ? field.trim() : '' on a string or undefined field
TrimOrEmpty(v) == IF Truthy(v) THEN trim(v.s) ELSE <<>>

\* MissingText, had it compared the text itself with '', untrimmed
MissingTextUntrimmed(text) ==
  \/ ~Truthy(text)
  \/ TypeOf(text) # "string"
  \/ text.s = <<>>

\* !text || typeof text !== 'string' || text.trim() === ''
MissingText(text) ==
  \/ ~Truthy(text)
  \/ TypeOf(text) # "string"
  \/ trim(text.s) = <<>>

\* the newQuote of addQuote, the defaults author = '' and category = ''
\* standing in for undefined fields
newQuoteOf(cand) ==
  Quote(trim(cand.text.s), TrimOrEmpty(cand.author), TrimOrEmpty(cand.category))

\* hasText, had it looked at the first quote only
hasTextFirstOnly(qs, text) == qs # <<>> /\ GetProp(qs[1], "text") = Str(text)

\* quotes.some(q => q.text === text)
hasText(qs, text) == \E i \in 1..Len(qs) : GetProp(qs[i], "text") = Str(text)

\* item && typeof item.text === 'string' && item.text.trim() !== ''
ValidItem(item) ==
  /\ Truthy(item)
  /\ TypeOf(GetProp(item, "text")) = "string"
  /\ trim(GetProp(item, "text").s) # <<>>

\* (v && typeof v === 'string') ? v.trim() : ''
StringOrEmpty(v) == IF Truthy(v) /\ TypeOf(v) = "string" THEN trim(v.s) ELSE <<>>

Normalize(item) ==
  Quote(trim(GetProp(item, "text").s),
        StringOrEmpty(GetProp(item, "author")),
        StringOrEmpty(GetProp(item, "category")))

\* the valid list of the import: the well-formed items, normalized, in order
validOf(imported) ==
  LET keep == SelectSeq(imported, ValidItem)
  IN  [i \in 1..Len(keep) |-> Normalize(keep[i])]

\* toAddOf, had it kept the items whose text is in the collection already
toAddOfUnfiltered(qs, valid) == valid

\* valid.filter(q => !existingTexts.has(q.text))
toAddOf(qs, valid) ==
  SelectSeq(valid, LAMBDA q : ~hasText(qs, GetProp(q, "text").s))

(* ---------------- inputs ---------------- *)
\* candidates handed to addQuote: the values of the three form fields, or
\* an object that leaves fields out
Candidate(text, author, category) ==
  [text |-> text, author |-> author, category |-> category]

AddInputs ==
  { Candidate(Undefined, Undefined, Undefined),
    Candidate(Str(<<>>), Str(<<"x">>), Str(<<"A">>)),
    Candidate(Str(<<WS, WS>>), Str(<<>>), Str(<<>>)),
    Candidate(Str(<<WS, "a", WS>>), Undefined, Str(<<"A", WS>>)),
    Candidate(Str(<<"b">>), Str(<<WS, "x">>), Str(<<>>)) }

JQuote(text, author, category) ==
  JObject(<<JMember("text", JString(text)), JMember("author", JString(author)),
            JMember("category", JString(category))>>)

\* files handed to the import
ImportFiles ==
  { Malformed,
    JsonText(2, JObject(<<JMember("text", JString(<<"a">>))>>)),
    JsonText(0, JArray(<<JNull, JNumber(5),
                         JObject(<<JMember("text", JString(<<WS>>))>>),
                         JObject(<<JMember("author", JString(<<"x">>))>>)>>)),
    JsonText(0, JArray(<<JObject(<<JMember("text", JString(<<WS, "a">>)),
                                   JMember("author", JNumber(7)),
                                   JMember("category", JString(<<WS, "A">>))>>),
                         JNull,
                         JQuote(<<"a">>, <<>>, <<"A">>)>>)),
    JsonText(2, JArray(<<JObject(<<JMember("author", JString(<<"x", WS>>)),
                                   JMember("text", JString(<<"b">>))>>),
                         JQuote(<<"a">>, <<>>, <<"A">>)>>)) }

\* what dq_quotes_v1 can hold when the page is opened
StoredInputs ==
  { NoText, EmptyText, Malformed,
    JsonText(0, JNull),
    JsonText(0, JObject(<<JMember("text", JString(<<"a">>))>>)),
    JsonText(0, JArray(<<>>)),
    JsonText(0, JArray(<<JObject(<<JMember("text", JString(<<WS>>))>>),
                         JNull,
                         JObject(<<JMember("text", JNumber(5))>>),
                         JString(<<"a">>),
                         JObject(<<JMember("author", JString(<<"x">>)),
                                   JMember("text", JString(<<WS, "a">>)),
                                   JMember("category", JString(<<"A">>))>>)>>)),
    JsonText(0, JArray(<<JQuote(<<"a">>, <<>>, <<"A">>),
                         JQuote(<<"b">>, <<"x">>, <<>>)>>)) }

\* what dq_selectedCategory can hold when the page is opened
SelectedInputs ==
  { NoText, Plain(<<"A">>) }

(* ---------------- state ---------------- *)
\* alertMsg is the alert the last handler raised, n the count it reports
NoAlert == [msg |-> "none", n |-> 0]
Alert(msg, n) == [msg |-> msg, n |-> n]

\* lastCall is the handler that ran last, with its argument (the candidate
\* of an add, the file of an import) and the answers the environment gave
\* it: confirm is "notAsked", "accepted" or "declined", save is "none", "ok"
\* or "failed". again tells an import of the file that the handler before
\* it had imported too, having found valid items in it.
Call(op, arg, confirm, save, again) ==
  [op |-> op, arg |-> arg, confirm |-> confirm, save |-> save, again |-> again]

Saved(ok) == IF ok THEN "ok" ELSE "failed"

\* staleWrites counts the writes of dq_quotes_v1 that failed since the last
\* one that succeeded
Stale(ok) == IF ok THEN 0 ELSE staleWrites + 1

\* download is the file of the last export, of the collection it was
\* written from; the user keeps the file at hand until another handler than
\* the clearing and the import that follow the export has run
NoDownload == [file |-> NoText, of |-> <<>>]

\* the page is opened: quotes = loadQuotes(), then init()
Init ==
  \E rawQuotes \in StoredInputs, rawSelected \in SelectedInputs, present \in BOOLEAN :
    LET ls == (LOCAL_KEY :> rawQuotes) @@ (SELECTED_KEY :> rawSelected)
        ss == (SESSION_KEY :> NoText)
        cf == [present |-> present, options |-> <<>>, value |-> <<>>]
    IN  /\ quotes = loadQuotes(ls)
        /\ \E o \in init(loadQuotes(ls), ls, ss, cf) :
             /\ localStorage = o.ls
             /\ sessionStorage = o.ss
             /\ categoryFilter = o.cf
        /\ download = NoDownload
        /\ alertMsg = NoAlert
        /\ lastCall = Call("init", Undefined, "notAsked", "none", FALSE)
        /\ staleWrites = 0

\* the page is reloaded: both storages stay
Reload ==
  /\ quotes' = loadQuotes(localStorage)
  /\ \E o \in init(loadQuotes(localStorage), localStorage, sessionStorage,
                   [present |-> categoryFilter.present, options |-> <<>>, value |-> <<>>]) :
       /\ localStorage' = o.ls
       /\ sessionStorage' = o.ss
       /\ categoryFilter' = o.cf
  /\ alertMsg' = NoAlert
  /\ lastCall' = Call("init", Undefined, "notAsked", "none", FALSE)
  /\ download' = NoDownload
  /\ staleWrites' = 0

(* ---------------- handlers ---------------- *)
\* addQuote(cand); conf answers the duplicate confirmation, ok tells
\* whether the write of saveQuotes succeeds
AddQuote(cand, conf, ok) ==
  IF MissingText(cand.text)
  THEN /\ alertMsg' = Alert("Please provide quote text.", 0)
       /\ lastCall' = Call("add", cand, "notAsked", "none", FALSE)
       /\ download' = NoDownload
       /\ UNCHANGED <<quotes, localStorage, sessionStorage, categoryFilter, staleWrites>>
  ELSE LET newQuote == newQuoteOf(cand)
           duplicate == hasText(quotes, GetProp(newQuote, "text").s)
           pushed == Append(quotes, newQuote)
       IN  IF duplicate /\ ~conf
           THEN /\ alertMsg' = NoAlert
                /\ lastCall' = Call("add", cand, "declined", "none", FALSE)
                /\ download' = NoDownload
                /\ UNCHANGED <<quotes, localStorage, sessionStorage, categoryFilter, staleWrites>>
           ELSE /\ Len(pushed) <= MaxQuotes
                /\ quotes' = pushed
                /\ \E o \in populateCategories(pushed,
                                saveQuotes(localStorage, pushed, ok),
                                [sessionStorage EXCEPT
                                   ![SESSION_KEY] = JSONstringify(newQuote, 0)],
                                categoryFilter) :
                     /\ localStorage' = o.ls
                     /\ sessionStorage' = o.ss
                     /\ categoryFilter' = o.cf
                /\ alertMsg' = Alert("Quote added and saved to localStorage!", 0)
                /\ lastCall' = Call("add", cand,
                                    IF duplicate THEN "accepted" ELSE "notAsked",
                                    Saved(ok), FALSE)
                /\ download' = NoDownload
                /\ staleWrites' = Stale(ok)

\* what reader.onload finds in the text of a file, before it asks or
\* changes anything: the branch it takes, the valid items and those to add
Reading(file) ==
  LET imported == JSONparse(file)
      valid == validOf(imported.value.a)
      toAdd == toAddOf(quotes, valid)
      found(branch, v, a) == [branch |-> branch, valid |-> v, toAdd |-> a]
  IN  IF ~imported.ok THEN found("syntaxError", <<>>, <<>>)
      ELSE IF imported.value.t # "array" THEN found("notArray", <<>>, <<>>)
      ELSE IF valid = <<>> THEN found("noValid", <<>>, <<>>)
      ELSE IF toAdd = <<>> THEN found("allExist", valid, toAdd)
      ELSE found("someNew", valid, toAdd)

\* reader.onload of importFromJsonFile, once the text of the file is there;
\* r is what it reads in the file
Onload(file, r, conf, ok) ==
  LET again == /\ lastCall.op = "import"
               /\ lastCall.arg = file
               /\ lastCall.save # "none" \/ lastCall.confirm = "declined"
      pushed == quotes \o (IF r.toAdd = <<>> THEN r.valid ELSE r.toAdd)
      quiet(msg) ==
        /\ alertMsg' = Alert(msg, 0)
        /\ lastCall' = Call("import", file, "notAsked", "none", again)
        /\ UNCHANGED <<quotes, localStorage, sessionStorage, categoryFilter, staleWrites>>
  IN  /\ download' = NoDownload
      /\ CASE r.branch = "syntaxError" -> quiet("Error parsing JSON file.")
           [] r.branch = "notArray" ->
                quiet("Invalid file format: root element must be an array of quotes.")
           [] r.branch = "noValid" -> quiet("No valid quotes found in imported file.")
           [] r.branch = "allExist" /\ ~conf ->
                /\ alertMsg' = NoAlert
                /\ lastCall' = Call("import", file, "declined", "none", again)
                /\ UNCHANGED <<quotes, localStorage, sessionStorage, categoryFilter,
                               staleWrites>>
           [] OTHER ->
                /\ Len(pushed) <= MaxQuotes
                /\ quotes' = pushed
                /\ \E o \in populateCategories(pushed,
                                saveQuotes(localStorage, pushed, ok),
                                sessionStorage, categoryFilter) :
                     /\ localStorage' = o.ls
                     /\ sessionStorage' = o.ss
                     /\ categoryFilter' = o.cf
                /\ alertMsg' = Alert("Imported new quotes.", Len(r.toAdd))
                /\ lastCall' = Call("import", file,
                                    IF r.toAdd = <<>> THEN "accepted" ELSE "notAsked",
                                    Saved(ok), again)
                /\ staleWrites' = Stale(ok)

ImportOnload(file, conf, ok) == Onload(file, Reading(file), conf, ok)

\* clearAllQuotes, had it emptied the collection whatever the answer
ClearAllQuotesUnasked(conf, ok) ==
  /\ alertMsg' = NoAlert
  /\ UNCHANGED download
  /\ quotes' = <<>>
  /\ \E o \in populateCategories(<<>>, saveQuotes(localStorage, <<>>, ok),
                                 sessionStorage, categoryFilter) :
       /\ localStorage' = o.ls
       /\ sessionStorage' = o.ss
       /\ categoryFilter' = o.cf
  /\ lastCall' = Call("clear", Undefined, IF conf THEN "accepted" ELSE "declined",
                      Saved(ok), FALSE)
  /\ staleWrites' = Stale(ok)

\* clearAllQuotes()
ClearAllQuotes(conf, ok) ==
  /\ alertMsg' = NoAlert
  /\ UNCHANGED download
  /\ IF ~conf
     THEN /\ lastCall' = Call("clear", Undefined, "declined", "none", FALSE)
          /\ UNCHANGED <<quotes, localStorage, sessionStorage, categoryFilter, staleWrites>>
     ELSE /\ quotes' = <<>>
          /\ \E o \in populateCategories(<<>>, saveQuotes(localStorage, <<>>, ok),
                                         sessionStorage, categoryFilter) :
               /\ localStorage' = o.ls
               /\ sessionStorage' = o.ss
               /\ categoryFilter' = o.cf
          /\ lastCall' = Call("clear", Undefined, "accepted", Saved(ok), FALSE)
          /\ staleWrites' = Stale(ok)

\* the change listener of the select: the user picks the option v, then
\* filterQuotes() runs
FilterChange(v) ==
  /\ categoryFilter.present
  /\ \E o \in filterQuotes(quotes, localStorage, sessionStorage,
                           [categoryFilter EXCEPT !.value = v], TRUE) :
       /\ localStorage' = o.ls
       /\ sessionStorage' = o.ss
       /\ categoryFilter' = o.cf
  /\ alertMsg' = NoAlert
  /\ lastCall' = Call("filter", Undefined, "notAsked", "none", FALSE)
  /\ download' = NoDownload
  /\ UNCHANGED <<quotes, staleWrites>>

\* the click listener of the "new quote" button
ShowRandomQuote ==
  /\ sessionStorage' \in showRandomQuote(quotes, sessionStorage)
  /\ alertMsg' = NoAlert
  /\ lastCall' = Call("show", Undefined, "notAsked", "none", FALSE)
  /\ download' = NoDownload
  /\ UNCHANGED <<quotes, localStorage, categoryFilter, staleWrites>>

\* exportToJson(): quotes.json holds JSON.stringify(quotes, null, 2)
ExportToJson ==
  /\ download' = [file |-> JSONstringify(Arr(quotes), 2), of |-> quotes]
  /\ alertMsg' = NoAlert
  /\ lastCall' = Call("export", Undefined, "notAsked", "none", FALSE)
  /\ UNCHANGED <<quotes, localStorage, sessionStorage, categoryFilter, staleWrites>>

\* the files the user can pick: the given ones and the exported one
Files == ImportFiles \cup (IF download = NoDownload THEN {} ELSE {download.file})

\* the answers the environment can give: a confirmation is answered only
\* where the handler asks; a write fails only where the handler writes, the
\* storage is short of room (tight) and fewer than MaxStaleWrites writes
\* have failed in a row
Answers(asked) == IF asked THEN BOOLEAN ELSE {FALSE}
Writes(written, tight) ==
  IF written /\ tight /\ staleWrites < MaxStaleWrites THEN BOOLEAN ELSE {TRUE}

AddAsks(cand) ==
  /\ ~MissingText(cand.text)
  /\ hasText(quotes, trim(cand.text.s))

Add(tight) ==
  \E cand \in AddInputs :
    \E conf \in Answers(AddAsks(cand)) :
      \E ok \in Writes(~MissingText(cand.text) /\ (AddAsks(cand) => conf), tight) :
        AddQuote(cand, conf, ok)

Import(tight) ==
  \E file \in Files :
    LET r == Reading(file)
    IN  \E conf \in Answers(r.branch = "allExist") :
          \E ok \in Writes(r.branch = "someNew" \/ (r.branch = "allExist" /\ conf), tight) :
            Onload(file, r, conf, ok)

Clear(tight) ==
  \E conf \in BOOLEAN :
    \E ok \in Writes(conf, tight) :
      ClearAllQuotes(conf, ok)

Filter ==
  \E i \in 1..Len(categoryFilter.options) : FilterChange(categoryFilter.options[i])

\* every handler of the page, on a storage that takes every write
Next ==
  \/ Add(FALSE)
  \/ Import(FALSE)
  \/ Clear(FALSE)
  \/ Filter
  \/ ShowRandomQuote
  \/ ExportToJson
  \/ Reload

Spec == Init /\ [][Next]_vars

\* the handlers that write the collection, on a storage short of room
NextTight ==
  \/ Add(TRUE)
  \/ Import(TRUE)
  \/ Clear(TRUE)
  \/ Reload

SpecTight == Init /\ [][NextTight]_vars

(* ---------------- what the claims speak of ---------------- *)
\* the collection that dq_quotes_v1 decodes to, where it decodes to one
Durable == JSONparse(localStorage[LOCAL_KEY])
InSync == Durable.ok /\ Durable.value = Arr(quotes)

\* the {text, author, category} record of a quote
RecordOf(q) ==
  [text |-> GetProp(q, "text"), author |-> GetProp(q, "author"),
   category |-> GetProp(q, "category")]

\* the multiset of the records of a collection
RecordBag(qs) ==
  LET recs == [i \in 1..Len(qs) |-> RecordOf(qs[i])]
  IN  [r \in {recs[i] : i \in 1..Len(qs)} |->
         Cardinality({i \in 1..Len(qs) : recs[i] = r})]

\* a text that is missing, empty or made of whitespace only
BlankText(text) == text.t # "string" \/ \A i \in 1..Len(text.s) : text.s[i] = WS

\* the last handler was an add, an import or a clearing that went as far as
\* saveQuotes
Wrote == lastCall.op \in {"add", "import", "clear"} /\ lastCall.save # "none"

(* ---------------- claims ---------------- *)
\* C1: in every reachable state every quote of the in-memory collection has
\* a text that is not empty once trimmed.
C1_TextNeverBlank ==
  \A i \in 1..Len(quotes) : ~BlankText(GetProp(quotes[i], "text"))

\* C2: after every add, import or clearing that got to write, the write
\* succeeding, dq_quotes_v1 holds exactly the in-memory collection, the same
\* elements in the same order.
C2_DurableIsCollection ==
  (Wrote /\ lastCall.save = "ok") => InSync

\* the scenario of the spec: an add on an empty store, after which the
\* storage holds exactly that one-element array
C2_Witness ==
  /\ lastCall.op = "add"
  /\ lastCall.save = "ok"
  /\ Len(quotes) = 1
  /\ Durable.ok
  /\ Durable.value = Arr(<<quotes[1]>>)

\* C3: when an add has succeeded, dq_last_quote holds exactly the quote that
\* was added, whatever category is stored as the selected one.
C3_SessionHoldsAdded ==
  (lastCall.op = "add" /\ lastCall.save # "none") =>
    /\ JSONparse(sessionStorage[SESSION_KEY]).ok
    /\ JSONparse(sessionStorage[SESSION_KEY]).value = quotes[Len(quotes)]

\* C4: the count an import reports is the number of quotes it appended.
C4_ReportedCount ==
  [][ (lastCall'.op = "import" /\ lastCall'.save # "none") =>
        alertMsg'.n = Len(quotes') - Len(quotes) ]_vars

\* C5: importing an exported collection into an empty store yields a
\* collection with the same multiset of {text, author, category} records.
C5_RoundTrip ==
  [][ ( /\ download # NoDownload
        /\ quotes = <<>>
        /\ lastCall'.op = "import"
        /\ lastCall'.arg = download.file ) =>
        RecordBag(quotes') = RecordBag(download.of) ]_vars

\* C6: importing twice in a row a file that holds a valid item, no appending
\* of duplicates being accepted the second time, leaves the collection after
\* the second import as it was after the first.
C6_SecondImportKeeps ==
  [][ ( /\ lastCall'.op = "import"
        /\ lastCall'.again
        /\ lastCall'.confirm # "accepted" ) =>
        quotes' = quotes ]_vars

\* the second import of a file with a repeated text has been declined
C6_Witness ==
  /\ lastCall.op = "import"
  /\ lastCall.again
  /\ lastCall.confirm = "declined"
  /\ LET valid == validOf(JSONparse(lastCall.arg).value.a)
     IN  Len(valid) = 2 /\ GetProp(valid[1], "text") = GetProp(valid[2], "text")

\* C7: an add whose text is missing, empty or whitespace only alerts the
\* caller and leaves the collection, dq_quotes_v1 and dq_last_quote as they
\* were.
C7_BlankAddChangesNothing ==
  [][ (lastCall'.op = "add" /\ BlankText(lastCall'.arg.text)) =>
        /\ alertMsg'.msg = "Please provide quote text."
        /\ quotes' = quotes
        /\ localStorage'[LOCAL_KEY] = localStorage[LOCAL_KEY]
        /\ sessionStorage' = sessionStorage ]_vars

\* an add of a whitespace-only text has been turned down while the
\* collection, the storage and the session held something
C7_Witness ==
  /\ lastCall.op = "add"
  /\ lastCall.arg.text = Str(<<WS, WS>>)
  /\ alertMsg.msg = "Please provide quote text."
  /\ quotes # <<>>
  /\ sessionStorage[SESSION_KEY] # NoText

\* C8: a declined confirmation leaves the collection and both storages as
\* they were, and a collection that held quotes is emptied by nothing but a
\* clearing that was confirmed.
C8_DeclinedIsNoOp ==
  [][ /\ lastCall'.confirm = "declined" =>
           /\ quotes' = quotes
           /\ localStorage' = localStorage
           /\ sessionStorage' = sessionStorage
      /\ (quotes # <<>> /\ quotes' = <<>> /\ lastCall'.op # "init") =>
           (lastCall'.op = "clear" /\ lastCall'.confirm = "accepted") ]_vars

\* a clearing has been declined on a collection that holds quotes
C8_Witness ==
  /\ lastCall.op = "clear"
  /\ lastCall.confirm = "declined"
  /\ quotes # <<>>
  /\ sessionStorage[SESSION_KEY] # NoText

\* C9: an add, an import or a clearing whose write fails runs to its end all
\* the same: the collection keeps the result, the alert of success is
\* raised; and the next write that succeeds stores the whole collection.
C9_FailedWriteKeepsResult ==
  [][ /\ (lastCall'.op = "add" /\ lastCall'.save = "failed") =>
           /\ quotes' = Append(quotes, newQuoteOf(lastCall'.arg))
           /\ alertMsg'.msg = "Quote added and saved to localStorage!"
           /\ JSONparse(sessionStorage'[SESSION_KEY]).ok
      /\ (lastCall'.op = "import" /\ lastCall'.save = "failed") =>
           /\ Len(quotes') > Len(quotes)
           /\ SubSeq(quotes', 1, Len(quotes)) = quotes
           /\ alertMsg'.msg = "Imported new quotes."
      /\ (lastCall'.op = "clear" /\ lastCall'.save = "failed") =>
           quotes' = <<>>
      /\ (staleWrites > 0 /\ lastCall'.save = "ok") =>
          LET stored == JSONparse(localStorage'[LOCAL_KEY])
          IN  stored.ok /\ stored.value = Arr(quotes') ]_vars

\* a write has failed and the storage lags behind the collection
C9_Witness ==
  /\ Wrote
  /\ lastCall.save = "failed"
  /\ quotes # <<>>
  /\ ~InSync

\* C10: initialize yields the three default quotes, of categories
\* Inspiration, Wisdom and Teamwork, when dq_quotes_v1 is absent, does not
\* decode or decodes to something that is no array; for a stored array it
\* yields the elements that are objects with a string text, in stored order.
C10_Initialize ==
  lastCall.op = "init" =>
    LET raw == localStorage[LOCAL_KEY]
    IN  IF raw.kind = "json" /\ raw.doc.j = "array"
        THEN quotes = SelectSeq(Decode(raw.doc).a,
                                LAMBDA v : v.t = "object" /\ GetProp(v, "text").t = "string")
        ELSE /\ Len(quotes) = 3
             /\ listCategories(quotes) = <<Str(<<"Inspiration">>), Str(<<"Wisdom">>),
                                          Str(<<"Teamwork">>)>>
             /\ quotes = DEFAULT_QUOTES

\* the page has been opened on a stored array of which some elements, not
\* all, are objects with a string text
C10_Witness ==
  /\ lastCall.op = "init"
  /\ localStorage[LOCAL_KEY].kind = "json"
  /\ localStorage[LOCAL_KEY].doc.j = "array"
  /\ Len(quotes) > 0
  /\ Len(quotes) < Len(localStorage[LOCAL_KEY].doc.elements)

\* the stored selected category, when there is one, is "all" or one of the
\* categories of the collection
SelectedKnown ==
  LET saved == localStorage[SELECTED_KEY]
      categories == listCategories(quotes)
  IN  saved.kind = "plain" =>
        \/ saved.s = ALL
        \/ \E i \in 1..Len(categories) : ToStr(categories[i]) = saved.s

\* C11: a category selection, an add, an import or a clearing that starts
\* where the stored selected category is unset, "all" or a category of the
\* collection ends in such a state again; so the stored category stays
\* known after any sequence of them.
C11_SelectedStaysKnown ==
  [][ (SelectedKnown /\ lastCall'.op \in {"filter", "add", "import", "clear"}) =>
        SelectedKnown' ]_vars

\* the items of a file's array that are objects with a text that is not
\* blank, in file order; none when the file holds no array
ValidItemsOf(file) ==
  LET imported == JSONparse(file)
  IN  IF imported.ok /\ imported.value.t = "array"
      THEN SelectSeq(imported.value.a,
                     LAMBDA item : item.t = "object" /\ ~BlankText(GetProp(item, "text")))
      ELSE <<>>

\* those of the items whose trimmed text is the text of no quote of qs
NewItemsOf(items, qs) ==
  SelectSeq(items, LAMBDA item :
    \A i \in 1..Len(qs) : GetProp(qs[i], "text") # Str(trim(GetProp(item, "text").s)))

\* C12: an import of an array in which some valid item has a trimmed text
\* that is not in the collection leaves the previous collection, unchanged
\* and in order, followed by exactly the valid items whose trimmed text was
\* not in it, normalized and in file order.
C12_ImportAppendsNew ==
  [][ lastCall'.op = "import" =>
        LET new == NewItemsOf(ValidItemsOf(lastCall'.arg), quotes)
        IN  new # <<>> =>
              quotes' = quotes \o [i \in 1..Len(new) |-> Normalize(new[i])] ]_vars

\* an import into a collection that is not empty has appended some of the
\* valid items of its file and left out others, whose text was there
C12_Witness ==
  /\ lastCall.op = "import"
  /\ lastCall.confirm = "notAsked"
  /\ lastCall.save # "none"
  /\ alertMsg.n > 0
  /\ alertMsg.n < Len(ValidItemsOf(lastCall.arg))
  /\ alertMsg.n < Len(quotes)
====
